---- MODULE Spec2Model ----
(***************************************************************************)
(* The CouchDB replication orchestrator of NoteBook                        *)
(* (backend/src/notebook/database/couchdb_client.py): the replication      *)
(* manager, the control database _replicator on the primary, and the       *)
(* module-level entry points, as a state machine.                          *)
(*                                                                         *)
(* Python strings are sequences of one-character strings, so that the ids  *)
(* the code formats are computed here the way the code computes them.      *)
(***************************************************************************)
EXTENDS Integers, Sequences, FiniteSets, TLC

\* ------------------------------------------------------------------ bounds
\* time.time() is read as a whole number of seconds; the model's clock stops here.
MaxClock == 1
\* Highest revision a writer outside the manager gives a task document.
MaxRev == 1
\* SpecIds: longest host-and-path part of a replica URL, longest database name.
MaxUrlBody == 3
MaxDbLen == 2
\* SpecNorm: most whitespace characters on one side of an entry of the
\* configured node list, and most entries of the list.
MaxPad == 1
MaxListLen == 2

\* ------------------------------------------------------------ Python str
RECURSIVE Replace(_, _, _)
\* str.replace(old, new): every non-overlapping occurrence, left to right.
Replace(s, old, new) ==
  IF Len(s) < Len(old) THEN s
  ELSE IF SubSeq(s, 1, Len(old)) = old
       THEN new \o Replace(SubSeq(s, Len(old) + 1, Len(s)), old, new)
       ELSE <<s[1]>> \o Replace(Tail(s), old, new)

\* The characters str.strip() removes: whitespace (a space and a tab stand
\* for all of it).
Whitespace == {" ", "\t"}

RECURSIVE LStrip(_)
LStrip(s) == IF s # <<>> /\ s[1] \in Whitespace THEN LStrip(Tail(s)) ELSE s

RECURSIVE RStrip(_)
RStrip(s) ==
  IF s # <<>> /\ s[Len(s)] \in Whitespace THEN RStrip(SubSeq(s, 1, Len(s) - 1)) ELSE s

\* A strip that leaves trailing whitespace in place.
Strip_LeftOnly(s) == LStrip(s)

\* str.strip()
Strip(s) == RStrip(LStrip(s))

Digits == <<"0", "1", "2", "3", "4", "5", "6", "7", "8", "9">>

RECURSIVE IntStr(_)
\* str(int) of a non-negative integer, as an f-string formats it.
IntStr(n) ==
  IF n < 10 THEN <<Digits[n + 1]>> ELSE IntStr(n \div 10) \o <<Digits[(n % 10) + 1]>>

\* ------------------------------------------------------- configuration
\* COUCHDB_URL, the primary ("h" stands for the scheme, "p" for host:port).
COUCHDB_URL == <<"h", ":", "/", "/", "p", "/">>
NodeA == <<"h", ":", "/", "/", "a", "/">>
NodeB == <<"h", ":", "/", "/", "b", "/">>
\* The values REPLICATION_NODES takes: unset, one node, two entries with blanks
\* around the first and an empty entry between them, and the URL of the
\* primary itself (nothing compares the entries with COUCHDB_URL).
NodeConfigs ==
  { <<>>,
    <<NodeA>>,
    << <<" ">> \o NodeA \o <<" ">>, <<>>, NodeB >>,
    <<COUCHDB_URL>> }
\* CONTINUOUS_REPLICATION: the environment default, 'true'.
CONTINUOUS_REPLICATION == TRUE

DbNames == { <<"x">>, <<"z">> }
AllUrls == {COUCHDB_URL, NodeA, NodeB}

VARIABLES
  REPLICATION_NODES,    \* the configured list, as read from the environment
  replication_servers,  \* the manager's dict of connected replicas: its keys, in order
  dbs,                  \* dbs[url]: the databases that exist on the node at url
  replicator,           \* the control database of the primary: id -> task document
  clock,                \* int(time.time())
  call,                 \* the operation in progress (or the last one finished)
  last,                 \* the call finished right before this one, nothing in between
  idq                   \* SpecIds: two inputs of the id derivation and their ids

vars == <<REPLICATION_NODES, replication_servers, dbs, replicator, clock, call, last, idq>>

RECURSIVE Normalize(_)
\* self.nodes = [node.strip() for node in nodes if node.strip()]
Normalize(raw) ==
  IF raw = <<>> THEN <<>>
  ELSE IF Strip(raw[1]) # <<>>
       THEN <<Strip(raw[1])>> \o Normalize(Tail(raw))
       ELSE Normalize(Tail(raw))

nodes == Normalize(REPLICATION_NODES)

\* replication_manager = CouchDBReplicationManager(...) if REPLICATION_NODES else None
HasManager == REPLICATION_NODES # <<>>

Range(s) == {s[k] : k \in 1..Len(s)}

\* The attributes an instance of CouchDBReplicationManager has: the methods the
\* class defines and the fields __init__ sets.  get_or_create_db is a function
\* of the module, not one of them.
ManagerAttributes ==
  { "primary_url", "nodes", "user", "password", "credentials",
    "primary_server", "replication_servers",
    "get_primary_db", "setup_database_replication", "_create_replication",
    "get_replication_status", "stop_replication", "stop_all_replications",
    "check_node_health", "perform_failover", "sync_database" }

\* self.<name>: the lookup succeeds only for an attribute of the instance.
HasAttr(name) == name \in ManagerAttributes

\* ------------------------------------------------------------ task ids
Txt_primary_to == <<"p", "r", "i", "m", "a", "r", "y", "_", "t", "o", "_">>
Txt_to_primary == <<"_", "t", "o", "_", "p", "r", "i", "m", "a", "r", "y", "_">>
Txt_sync == <<"s", "y", "n", "c", "_">>

\* node_url.replace('://', '_').replace('/', '_')
NodeTag(node_url) == Replace(Replace(node_url, <<":", "/", "/">>, <<"_">>), <<"/">>, <<"_">>)

\* f"primary_to_{node_url.replace('://', '_').replace('/', '_')}_{db_name}"
PrimaryToId(node_url, db_name) == Txt_primary_to \o NodeTag(node_url) \o <<"_">> \o db_name

\* f"{node_url.replace('://', '_').replace('/', '_')}_to_primary_{db_name}"
ToPrimaryId(node_url, db_name) == NodeTag(node_url) \o Txt_to_primary \o db_name

\* f"sync_{db_name}_{int(time.time())}"
SyncId(db_name, now) == Txt_sync \o db_name \o <<"_">> \o IntStr(now)

\* ---------------------------------------------------- control database
EmptyMap == [k \in {} |-> TRUE]

\* dict[k] = v
MapPut(m, k, v) == [x \in DOMAIN m \cup {k} |-> IF x = k THEN v ELSE m[x]]

\* del dict[k]
MapDel(m, k) == [x \in DOMAIN m \ {k} |-> m[x]]

\* The document _create_replication builds.  Its credentials, create_target
\* and retry are the same in every document and are left out; REPLICATION_FILTER
\* is at its default, '', so no filter is attached.
ReplicationDoc(source, target, continuous) ==
  [source |-> source, target |-> target, continuous |-> continuous]

\* The revision of the document with this id; 0 when there is none.
CurrentRev(rep, id) == IF id \in DOMAIN rep THEN rep[id].rev ELSE 0

\* replicator_db[id] = doc: the control database accepts the write only when
\* the revision sent (0: none) is the document's current one, and then assigns
\* the next revision; otherwise it answers with a conflict.
DbPut(rep, id, doc, rev) ==
  IF rev = CurrentRev(rep, id)
  THEN [ok |-> TRUE,
        rep |-> MapPut(rep, id, [rev |-> rev + 1, source |-> doc.source,
                                 target |-> doc.target, continuous |-> doc.continuous])]
  ELSE [ok |-> FALSE, rep |-> rep]

\* An upsert that reaches the control database and writes the document.
create_replication_Writes(rep, source, target, replication_id, continuous) ==
  LET replication_doc == ReplicationDoc(source, target, continuous)
      put == IF replication_id \in DOMAIN rep
             THEN DbPut(rep, replication_id, replication_doc, rep[replication_id].rev)
             ELSE DbPut(rep, replication_id, replication_doc, 0)
  IN [raised |-> ~put.ok, rep |-> put.rep]

\* _create_replication: [raised, rep], rep the control database afterwards.
\* Line 138 looks up self.get_or_create_db, which no instance has: the
\* AttributeError is caught by the outer handler, logged and raised again,
\* before the control database is read.
create_replication(rep, source, target, replication_id, continuous) ==
  LET replication_doc == ReplicationDoc(source, target, continuous) IN
  IF ~HasAttr("get_or_create_db")
  THEN [raised |-> TRUE, rep |-> rep]
  ELSE LET put == IF replication_id \in DOMAIN rep
                  THEN DbPut(rep, replication_id, replication_doc, rep[replication_id].rev)
                  ELSE DbPut(rep, replication_id, replication_doc, 0)
       IN [raised |-> ~put.ok, rep |-> put.rep]

\* ------------------------------------------------------------ the caller
IdleCall ==
  [op |-> "none", pc |-> "idle", db |-> <<>>, bidirectional |-> FALSE, wait |-> FALSE,
   i |-> 0, results |-> EmptyMap, attempts |-> <<>>, ensured |-> {},
   ensureFailed |-> {}, netfail |-> FALSE, raised |-> FALSE, handle |-> <<>>,
   setups |-> 0, existed |-> FALSE, nested |-> FALSE, interfered |-> FALSE,
   arg |-> <<>>, ret |-> FALSE, status |-> EmptyMap, stops |-> <<>>, health |-> EmptyMap,
   failing |-> {}]

NoCall == [op |-> "none", db |-> <<>>, rep |-> EmptyMap]

\* What is remembered of a call when the next one starts right after it: a
\* setup_database_replication(db, bidirectional=True) all of whose requests
\* succeeded, the database it was for and the control database as it left it.
Summary(c) ==
  IF c.pc = "done" /\ ~c.interfered /\ c.op = "setup" /\ c.bidirectional /\ ~c.netfail
  THEN [op |-> c.op, db |-> c.db, rep |-> replicator]
  ELSE NoCall

CanCall == call.pc \in {"idle", "done"}

\* One record per _create_replication call of the operation.
Attempt(node_url, id, continuous, raised) ==
  [node |-> node_url, id |-> id, continuous |-> continuous, raised |-> raised]

\* --------------------------------------------- setup_database_replication
\* Entering setup_database_replication: results = {} and the first loop.
StartSetup(c) ==
  IF replication_servers = <<>>
  THEN [c EXCEPT !.pc = "done",
                 !.handle = IF c.nested THEN COUCHDB_URL \o c.db ELSE <<>>]
  ELSE [c EXCEPT !.pc = "ensure", !.i = 1]

\* A first loop that lets the failure of a replica out of the call.
EnsureIteration_Propagates(c, node_url, failed) ==
  IF failed
  THEN [c EXCEPT !.raised = TRUE, !.ensured = c.ensured \cup {node_url},
                 !.ensureFailed = c.ensureFailed \cup {node_url}, !.netfail = TRUE]
  ELSE [c EXCEPT !.ensured = c.ensured \cup {node_url}]

\* One pass of the first loop (lines 67-75) for node_url: the existence check
\* or the create raised (failed), or the database exists afterwards.
EnsureIteration(c, node_url, failed) ==
  IF failed
  THEN [c EXCEPT !.results = MapPut(c.results, node_url, FALSE),
                 !.ensured = c.ensured \cup {node_url},
                 !.ensureFailed = c.ensureFailed \cup {node_url},
                 !.netfail = TRUE]
  ELSE [c EXCEPT !.ensured = c.ensured \cup {node_url}]

\* TaskIteration with the handler of the second loop recording success.
TaskIteration_TrueOnError(c, rep, node_url) ==
  LET id1 == PrimaryToId(node_url, c.db)
      fwd == create_replication(rep, COUCHDB_URL \o c.db, node_url \o c.db, id1,
                                CONTINUOUS_REPLICATION)
  IN [call |-> [c EXCEPT !.attempts = Append(c.attempts,
                             Attempt(node_url, id1, CONTINUOUS_REPLICATION, fwd.raised)),
                         !.results = MapPut(c.results, node_url, TRUE)],
      rep |-> fwd.rep]

\* One pass of the second loop (lines 78-102) for node_url: [call, rep].
TaskIteration(c, rep, node_url) ==
  LET src == COUCHDB_URL \o c.db
      tgt == node_url \o c.db
      id1 == PrimaryToId(node_url, c.db)
      id2 == ToPrimaryId(node_url, c.db)
      fwd == create_replication(rep, src, tgt, id1, CONTINUOUS_REPLICATION)
      a1  == Attempt(node_url, id1, CONTINUOUS_REPLICATION, fwd.raised)
      bwd == create_replication(fwd.rep, tgt, src, id2, CONTINUOUS_REPLICATION)
      a2  == Attempt(node_url, id2, CONTINUOUS_REPLICATION, bwd.raised)
  IN IF fwd.raised
     THEN [call |-> [c EXCEPT !.attempts = Append(c.attempts, a1),
                              !.results = MapPut(c.results, node_url, FALSE)],
           rep |-> fwd.rep]
     ELSE IF c.bidirectional
          THEN [call |-> [c EXCEPT !.attempts = c.attempts \o <<a1, a2>>,
                                   !.results = MapPut(c.results, node_url, ~bwd.raised)],
                rep |-> bwd.rep]
          ELSE [call |-> [c EXCEPT !.attempts = Append(c.attempts, a1),
                                   !.results = MapPut(c.results, node_url, TRUE)],
                rep |-> fwd.rep]

\* setup_replication(db_name, bidirectional), the entry point of the module
\* (and of POST /api/replication/setup): {} without a manager.
CallSetupReplication(db_name, bidirectional) ==
  /\ CanCall
  /\ LET c == [IdleCall EXCEPT !.op = "setup", !.db = db_name,
                               !.bidirectional = bidirectional]
     IN call' = IF HasManager THEN StartSetup(c) ELSE [c EXCEPT !.pc = "done"]
  /\ last' = Summary(call)
  /\ UNCHANGED <<REPLICATION_NODES, replication_servers, dbs, replicator, clock, idq>>

SetupEnsure ==
  /\ call.pc = "ensure"
  /\ LET node_url == replication_servers[call.i] IN
     \E failed \in BOOLEAN :
       LET c == EnsureIteration(call, node_url, failed) IN
       /\ call' = IF call.i < Len(replication_servers)
                  THEN [c EXCEPT !.i = call.i + 1]
                  ELSE [c EXCEPT !.pc = "tasks", !.i = 1]
       /\ dbs' = IF failed THEN dbs
                 ELSE [dbs EXCEPT ![node_url] = dbs[node_url] \cup {call.db}]
  /\ UNCHANGED <<REPLICATION_NODES, replication_servers, replicator, clock, last, idq>>

SetupTasks ==
  /\ call.pc = "tasks"
  /\ LET r == TaskIteration(call, replicator, replication_servers[call.i]) IN
     /\ call' = IF call.i < Len(replication_servers)
                THEN [r.call EXCEPT !.i = call.i + 1]
                ELSE [r.call EXCEPT !.pc = "done",
                        !.handle = IF call.nested THEN COUCHDB_URL \o call.db ELSE <<>>]
     /\ replicator' = r.rep
  /\ UNCHANGED <<REPLICATION_NODES, replication_servers, dbs, clock, last, idq>>

\* ----------------------------------------------------------- sync_database
\* One pass of the loop of sync_database (lines 281-307) for node_url, at
\* time now: [call, rep].  When the task was written and the caller waits,
\* the call goes on to poll the task's status (pc "poll").
SyncIteration(c, rep, node_url, now) ==
  LET sync_id == SyncId(c.db, now)
      cr == create_replication(rep, COUCHDB_URL \o c.db, node_url \o c.db, sync_id, FALSE)
      a  == Attempt(node_url, sync_id, FALSE, cr.raised)
      c1 == [c EXCEPT !.attempts = Append(c.attempts, a)]
  IN IF cr.raised
     THEN [call |-> [c1 EXCEPT !.results = MapPut(c.results, node_url, FALSE)],
           rep |-> cr.rep]
     ELSE IF c.wait
          THEN [call |-> [c1 EXCEPT !.pc = "poll"], rep |-> cr.rep]
          ELSE [call |-> [c1 EXCEPT !.results = MapPut(c.results, node_url, TRUE)],
                rep |-> cr.rep]

\* sync_database(db_name, wait_for_completion), the entry point of the module
\* (and of POST /api/replication/sync): {} without a manager.
CallSyncDatabase(db_name, wait_for_completion) ==
  /\ CanCall
  /\ LET c == [IdleCall EXCEPT !.op = "sync", !.db = db_name,
                               !.wait = wait_for_completion]
     IN call' = IF HasManager /\ replication_servers # <<>>
                THEN [c EXCEPT !.pc = "sync", !.i = 1]
                ELSE [c EXCEPT !.pc = "done"]
  /\ last' = Summary(call)
  /\ UNCHANGED <<REPLICATION_NODES, replication_servers, dbs, replicator, clock, idq>>

SyncNode ==
  /\ call.pc = "sync"
  /\ LET r == SyncIteration(call, replicator, replication_servers[call.i], clock) IN
     /\ call' = IF r.call.pc = "poll" THEN r.call
                ELSE IF call.i < Len(replication_servers)
                     THEN [r.call EXCEPT !.i = call.i + 1]
                     ELSE [r.call EXCEPT !.pc = "done"]
     /\ replicator' = r.rep
  /\ UNCHANGED <<REPLICATION_NODES, replication_servers, dbs, clock, last, idq>>

\* -------------------------------------------------------- get_or_create_db
\* FallbackDbs returning server[db_name] without creating the database.
FallbackDbs_NoCreate(d, db_name) == d

\* The single-server branch (lines 333-337): the databases of the primary
\* after `server[db_name] if db_name in server else server.create(db_name)`.
FallbackDbs(d, db_name) ==
  [d EXCEPT ![COUCHDB_URL] = d[COUCHDB_URL] \cup {db_name}]

\* get_primary_db (lines 55-60): the databases of the primary afterwards.
PrimaryDbs(d, db_name) ==
  IF db_name \in d[COUCHDB_URL] THEN d
  ELSE [d EXCEPT ![COUCHDB_URL] = d[COUCHDB_URL] \cup {db_name}]

\* `db_name not in server` (line 328), asked after get_primary_db returned.
IsNewDatabase(d, db_name) == db_name \notin d[COUCHDB_URL]

CallGetOrCreateDb(db_name) ==
  /\ CanCall
  /\ call' = [IdleCall EXCEPT !.op = "get_or_create_db", !.db = db_name,
                              !.bidirectional = TRUE,
                              !.existed = db_name \in dbs[COUCHDB_URL],
                              !.pc = IF HasManager THEN "primary" ELSE "fallback"]
  /\ last' = Summary(call)
  /\ UNCHANGED <<REPLICATION_NODES, replication_servers, dbs, replicator, clock, idq>>

\* db = replication_manager.get_primary_db(db_name): a request to the primary
\* that fails raises to the caller of get_or_create_db.
GetPrimaryDb ==
  /\ call.pc = "primary"
  /\ \E failed \in BOOLEAN :
       IF failed
       THEN /\ call' = [call EXCEPT !.pc = "done", !.raised = TRUE, !.netfail = TRUE]
            /\ dbs' = dbs
       ELSE /\ call' = [call EXCEPT !.pc = "check"]
            /\ dbs' = PrimaryDbs(dbs, call.db)
  /\ UNCHANGED <<REPLICATION_NODES, replication_servers, replicator, clock, last, idq>>

\* if db_name not in server: replication_manager.setup_database_replication(db_name)
\* and then return db.
CheckNewDatabase ==
  /\ call.pc = "check"
  /\ \E failed \in BOOLEAN :
       call' = IF failed
               THEN [call EXCEPT !.pc = "done", !.raised = TRUE, !.netfail = TRUE]
               ELSE IF IsNewDatabase(dbs, call.db)
                    THEN StartSetup([call EXCEPT !.nested = TRUE,
                                                 !.setups = call.setups + 1])
                    ELSE [call EXCEPT !.pc = "done", !.handle = COUCHDB_URL \o call.db]
  /\ UNCHANGED <<REPLICATION_NODES, replication_servers, dbs, replicator, clock, last, idq>>

\* The single-server mode of get_or_create_db.
FallbackSingle ==
  /\ call.pc = "fallback"
  /\ \E failed \in BOOLEAN :
       IF failed
       THEN /\ call' = [call EXCEPT !.pc = "done", !.raised = TRUE, !.netfail = TRUE]
            /\ dbs' = dbs
       ELSE /\ call' = [call EXCEPT !.pc = "done", !.handle = COUCHDB_URL \o call.db]
            /\ dbs' = FallbackDbs(dbs, call.db)
  /\ UNCHANGED <<REPLICATION_NODES, replication_servers, replicator, clock, last, idq>>

\* Another client of the primary deletes the database while get_or_create_db
\* is between get_primary_db and its test `db_name not in server`.
ExternalDropDb ==
  /\ call.pc = "check"
  /\ call.db \in dbs[COUCHDB_URL]
  /\ dbs' = [dbs EXCEPT ![COUCHDB_URL] = dbs[COUCHDB_URL] \ {call.db}]
  /\ UNCHANGED <<REPLICATION_NODES, replication_servers, replicator, clock, call, last, idq>>

\* ------------------------------------------------------------ environment
\* A second of wall-clock time passes.
Tick ==
  /\ clock < MaxClock
  /\ clock' = clock + 1
  /\ UNCHANGED <<REPLICATION_NODES, replication_servers, dbs, replicator, call, last, idq>>

\* The task documents another client of the primary (an operator, another
\* deployment) keeps in _replicator: the continuous task from the primary to
\* NodeA for "x".
ExternalTasks ==
  { [id |-> PrimaryToId(NodeA, <<"x">>),
     doc |-> ReplicationDoc(COUCHDB_URL \o <<"x">>, NodeA \o <<"x">>, TRUE)] }

Interfere(c) == IF c.pc = "idle" THEN c ELSE [c EXCEPT !.interfered = TRUE]

\* Another client writes a task document, with the document's current revision.
ExternalPut ==
  \E t \in ExternalTasks :
    /\ CurrentRev(replicator, t.id) < MaxRev
    /\ replicator' = DbPut(replicator, t.id, t.doc, CurrentRev(replicator, t.id)).rep
    /\ call' = Interfere(call)
    /\ UNCHANGED <<REPLICATION_NODES, replication_servers, dbs, clock, last, idq>>

\* Another client deletes a task document.
ExternalDelete ==
  \E id \in DOMAIN replicator :
    /\ replicator' = MapDel(replicator, id)
    /\ call' = Interfere(call)
    /\ UNCHANGED <<REPLICATION_NODES, replication_servers, dbs, clock, last, idq>>

\* --------------------------------------------------------- stop_replication
\* stop_replication returning True whatever happened.
stop_replication_AlwaysTrue(rep, replication_id, failed) ==
  [ret |-> TRUE, rep |-> MapDel(rep, replication_id)]

\* CouchDBReplicationManager.stop_replication: [ret, rep].  Opening
\* _replicator, reading the document (ResourceNotFound when there is none) or
\* deleting it raised: the handler logs and returns False.
stop_replication(rep, replication_id, failed) ==
  IF failed \/ replication_id \notin DOMAIN rep
  THEN [ret |-> FALSE, rep |-> rep]
  ELSE [ret |-> TRUE, rep |-> MapDel(rep, replication_id)]

\* The ids a caller asks to stop: those of the task documents that come and go.
StopIds == {t.id : t \in ExternalTasks}

\* stop_replication(replication_id), the entry point of the module: False
\* without a manager.
CallStopReplication(replication_id) ==
  /\ CanCall
  /\ \E failed \in BOOLEAN :
       LET r == IF HasManager THEN stop_replication(replicator, replication_id, failed)
                ELSE [ret |-> FALSE, rep |-> replicator]
       IN /\ call' = [IdleCall EXCEPT !.op = "stop", !.pc = "done",
                                      !.arg = replication_id,
                                      !.existed = replication_id \in DOMAIN replicator,
                                      !.netfail = failed, !.ret = r.ret]
          /\ replicator' = r.rep
  /\ last' = Summary(call)
  /\ UNCHANGED <<REPLICATION_NODES, replication_servers, dbs, clock, idq>>

\* ---------------------------------------------------- get_replication_status
\* dict.get(k, default)
Get(d, k, default) == IF k \in DOMAIN d THEN d[k] ELSE default

\* str.startswith(prefix)
StartsWith(s, prefix) ==
  Len(prefix) <= Len(s) /\ SubSeq(s, 1, Len(prefix)) = prefix

\* A test that only looks at the beginning of the string.
Contains_PrefixOnly(s, sub) == StartsWith(s, sub)

\* sub in s, for strings: sub occurs somewhere in s.
Contains(s, sub) ==
  \E i \in 0..(Len(s) - Len(sub)) : SubSeq(s, i + 1, i + Len(sub)) = sub

\* The four cumulative counters of _replication_stats.
Counters == {"docs_read", "docs_written", "doc_write_failures", "revisions_checked"}

\* The record get_replication_status builds for one task document.
StatusRecord(doc) ==
  LET base == [state |-> Get(doc, "_replication_state", "unknown"),
               source |-> Get(doc, "source", "unknown"),
               target |-> Get(doc, "target", "unknown"),
               continuous |-> Get(doc, "continuous", FALSE),
               last_updated |-> Get(doc, "_replication_state_time", "unknown")]
  IN IF "_replication_stats" \in DOMAIN doc
     THEN [c \in Counters |-> Get(doc["_replication_stats"], c, 0)] @@ base
     ELSE base

\* CouchDBReplicationManager.get_replication_status(db_name); db_name is <<>>
\* for None (and for '', which the test treats alike).  Any request failing
\* makes the handler return {}.
get_replication_status(rep, db_name, failed) ==
  IF failed THEN EmptyMap
  ELSE LET kept == { doc_id \in DOMAIN rep :
                       /\ ~StartsWith(doc_id, <<"_">>)
                       /\ ~(db_name # <<>> /\ ~Contains(doc_id, db_name)) }
       IN [doc_id \in kept |-> StatusRecord(rep[doc_id])]

\* get_replication_status(db_name), the entry point of the module: {} without
\* a manager.
CallGetReplicationStatus(db_name) ==
  /\ CanCall
  /\ \E failed \in BOOLEAN :
       call' = [IdleCall EXCEPT !.op = "status", !.pc = "done", !.db = db_name,
                                !.netfail = failed,
                                !.status = IF HasManager
                                           THEN get_replication_status(replicator, db_name, failed)
                                           ELSE EmptyMap]
  /\ last' = Summary(call)
  /\ UNCHANGED <<REPLICATION_NODES, replication_servers, dbs, replicator, clock, idq>>

\* --------------------------------------------------------- check_node_health
\* What server.version() answers, and str(e) of what it raises (a refused
\* connection).
Version == "3.3.2"
ErrorTexts == {"Connection refused"}

\* The record check_node_health stores for one node; error is "" when the
\* version request answered.
HealthRecord(error, now) ==
  IF error = ""
  THEN [status |-> "healthy", version |-> Version, timestamp |-> now]
  ELSE [status |-> "unhealthy", error |-> error, timestamp |-> now]

RECURSIVE HealthLoop_StopAtFailure(_, _, _, _)
\* A loop that gives up at the first replica whose version request fails.
HealthLoop_StopAtFailure(servers, errors, now, health_status) ==
  IF servers = <<>> \/ errors[Head(servers)] # "" THEN health_status
  ELSE HealthLoop_StopAtFailure(Tail(servers), errors, now,
         MapPut(health_status, Head(servers), HealthRecord(errors[Head(servers)], now)))

RECURSIVE HealthLoop(_, _, _, _)
\* The loop of check_node_health over replication_servers.items(): each
\* iteration has its own try/except and stores a record either way.
HealthLoop(servers, errors, now, health_status) ==
  IF servers = <<>> THEN health_status
  ELSE HealthLoop(Tail(servers), errors, now,
         MapPut(health_status, Head(servers), HealthRecord(errors[Head(servers)], now)))

\* CouchDBReplicationManager.check_node_health: the record of the primary, then
\* the records of the active replicas.  errors[n] is what the version request
\* to n raises ("": it answers).
check_node_health(servers, errors, now) ==
  HealthLoop(servers, errors, now,
             MapPut(EmptyMap, COUCHDB_URL, HealthRecord(errors[COUCHDB_URL], now)))

\* check_cluster_health(), the entry point of the module.
CallCheckClusterHealth ==
  /\ CanCall
  /\ \E errors \in [{COUCHDB_URL} \cup Range(replication_servers) -> {""} \cup ErrorTexts] :
       call' = [IdleCall EXCEPT
                  !.op = "health", !.pc = "done",
                  !.failing = IF HasManager THEN {n \in DOMAIN errors : errors[n] # ""}
                              ELSE {},
                  !.health = IF HasManager
                             THEN check_node_health(replication_servers, errors, clock)
                             ELSE MapPut(EmptyMap, COUCHDB_URL,
                                         [status |-> "healthy", note |-> "single node mode"])]
  /\ last' = Summary(call)
  /\ UNCHANGED <<REPLICATION_NODES, replication_servers, dbs, replicator, clock, idq>>

\* ---------------------------------------------------------- perform_failover
RECURSIVE StopEach(_, _, _, _)
\* The loop of perform_failover over the status records: stop_replication for
\* each id in ids, its result ignored; stops records what each call returned.
StopEach(rep, ids, stopFailed, stops) ==
  IF ids = {} THEN [rep |-> rep, stops |-> stops]
  ELSE LET repl_id == CHOOSE i \in ids : TRUE
           r == stop_replication(rep, repl_id, repl_id \in stopFailed)
       IN StopEach(r.rep, ids \ {repl_id}, stopFailed, MapPut(stops, repl_id, r.ret))

\* A removal that empties the active servers.
RemoveServer_All(servers, failed_node) == <<>>

\* del self.replication_servers[failed_node], when it is there.
RemoveServer(servers, failed_node) == SelectSeq(servers, LAMBDA n : n # failed_node)

\* A failover that gives up, the node still active, when a stop failed.
perform_failover_FailOnStop(rep, servers, failed_node, db_name, statusFailed, stopFailed) ==
  LET replications == get_replication_status(rep, db_name, statusFailed)
      involved == { repl_id \in DOMAIN replications :
                      \/ Contains(replications[repl_id].source, failed_node)
                      \/ Contains(replications[repl_id].target, failed_node) }
      s == StopEach(rep, involved, stopFailed, EmptyMap)
      ok == \A repl_id \in DOMAIN s.stops : s.stops[repl_id]
  IN [ret |-> ok, rep |-> s.rep, stops |-> s.stops,
      servers |-> IF ok THEN RemoveServer(servers, failed_node) ELSE servers]

\* CouchDBReplicationManager.perform_failover(failed_node, db_name): the status
\* of db_name is read ({} when the read fails), every task whose source or
\* target URL contains failed_node is stopped, and the node leaves the active
\* servers.  Nothing in the body raises for string arguments.
perform_failover(rep, servers, failed_node, db_name, statusFailed, stopFailed) ==
  LET replications == get_replication_status(rep, db_name, statusFailed)
      involved == { repl_id \in DOMAIN replications :
                      \/ Contains(replications[repl_id].source, failed_node)
                      \/ Contains(replications[repl_id].target, failed_node) }
      s == StopEach(rep, involved, stopFailed, EmptyMap)
  IN [ret |-> TRUE, rep |-> s.rep, stops |-> s.stops,
      servers |-> RemoveServer(servers, failed_node)]

\* The replica URLs a failover is asked for.
FailedNodes == {NodeA, NodeB}

\* replication_manager.perform_failover(failed_node, db_name).
CallPerformFailover(failed_node, db_name) ==
  /\ CanCall
  /\ HasManager
  /\ \E statusFailed \in BOOLEAN, stopFailed \in SUBSET DOMAIN replicator :
       LET r == perform_failover(replicator, replication_servers, failed_node, db_name,
                                 statusFailed, stopFailed)
       IN /\ call' = [IdleCall EXCEPT !.op = "failover", !.pc = "done",
                                      !.arg = failed_node, !.db = db_name,
                                      !.existed = failed_node \in Range(replication_servers),
                                      !.netfail = statusFailed,
                                      !.stops = r.stops, !.ret = r.ret]
          /\ replicator' = r.rep
          /\ replication_servers' = r.servers
  /\ last' = Summary(call)
  /\ UNCHANGED <<REPLICATION_NODES, dbs, clock, idq>>

\* ---------------------------------------------------------- specification
RECURSIVE SubSeqs(_)
\* The subsequences of s: what is left when any of its entries are dropped.
SubSeqs(s) ==
  IF s = <<>> THEN {<<>>}
  ELSE LET rest == SubSeqs(Tail(s)) IN rest \cup {<<s[1]>> \o r : r \in rest}

NoQuery == [phase |-> "none"]

\* After construction: the manager (when REPLICATION_NODES is set) holds the
\* nodes whose server.version() answered, in configuration order.
Init ==
  /\ REPLICATION_NODES \in NodeConfigs
  /\ replication_servers \in SubSeqs(nodes)
  /\ dbs = [u \in AllUrls |-> {}]
  /\ replicator = EmptyMap
  /\ clock = 0
  /\ call = IdleCall
  /\ last = NoCall
  /\ idq = NoQuery

Next ==
  \/ \E db_name \in DbNames, bidirectional \in BOOLEAN :
       CallSetupReplication(db_name, bidirectional)
  \/ SetupEnsure
  \/ SetupTasks
  \/ \E db_name \in DbNames, wait_for_completion \in BOOLEAN :
       CallSyncDatabase(db_name, wait_for_completion)
  \/ SyncNode
  \/ \E db_name \in DbNames : CallGetOrCreateDb(db_name)
  \/ GetPrimaryDb
  \/ CheckNewDatabase
  \/ FallbackSingle
  \/ \E replication_id \in StopIds : CallStopReplication(replication_id)
  \/ \E db_name \in DbNames \cup {<<>>} : CallGetReplicationStatus(db_name)
  \/ Tick
  \/ ExternalPut
  \/ ExternalDelete

Spec == Init /\ [][Next]_vars

\* get_or_create_db and the setup it starts, among clients that delete
\* databases of the primary.
NextGetOrCreate ==
  \/ \E db_name \in DbNames : CallGetOrCreateDb(db_name)
  \/ GetPrimaryDb
  \/ ExternalDropDb
  \/ CheckNewDatabase
  \/ SetupEnsure
  \/ SetupTasks
  \/ FallbackSingle

SpecGetOrCreate == Init /\ [][NextGetOrCreate]_vars

\* The operations on the cluster: health checks and failovers among the
\* setups and syncs of one caller, while other clients write and delete task
\* documents.
NextCluster ==
  \/ CallCheckClusterHealth
  \/ \E failed_node \in FailedNodes, db_name \in DbNames :
       CallPerformFailover(failed_node, db_name)
  \/ \E db_name \in DbNames, bidirectional \in BOOLEAN :
       CallSetupReplication(db_name, bidirectional)
  \/ SetupEnsure
  \/ SetupTasks
  \/ \E db_name \in DbNames, wait_for_completion \in BOOLEAN :
       CallSyncDatabase(db_name, wait_for_completion)
  \/ SyncNode
  \/ \E replication_id \in StopIds : CallStopReplication(replication_id)
  \/ \E db_name \in DbNames \cup {<<>>} : CallGetReplicationStatus(db_name)
  \/ ExternalPut
  \/ ExternalDelete

SpecCluster == Init /\ [][NextCluster]_vars

\* ------------------------------------------- the id derivation on its own
\* The non-empty sequences over S of length at most n.
SeqsUpTo(S, n) == UNION {[1..k -> S] : k \in 1..n}

\* Replica URLs scheme://<host and path>/, the host and path beginning and
\* ending with a letter, and database names that begin with a letter (CouchDB
\* allows lowercase letters, digits and _$()+-/ after it).
UrlBodies ==
  { b \in SeqsUpTo({"a", "_", "/"}, MaxUrlBody) : b[1] = "a" /\ b[Len(b)] = "a" }
UrlInputs == { <<"h", ":", "/", "/">> \o b \o <<"/">> : b \in UrlBodies }
DbInputs == { <<"x">> \o d : d \in {<<>>} \cup SeqsUpTo({"x", "_"}, MaxDbLen - 1) }
IdInputs == [url : UrlInputs, db : DbInputs, dir : {"primary_to_node", "node_to_primary"}]

\* The replication_id setup_database_replication passes for one task.
TaskId(in) ==
  IF in.dir = "primary_to_node" THEN PrimaryToId(in.url, in.db) ELSE ToPrimaryId(in.url, in.db)

InitIds ==
  /\ REPLICATION_NODES = <<>>
  /\ replication_servers = <<>>
  /\ dbs = [u \in AllUrls |-> {}]
  /\ replicator = EmptyMap
  /\ clock = 0
  /\ call = IdleCall
  /\ last = NoCall
  /\ idq \in [phase : {"in"}, a : IdInputs, b : IdInputs, ida : {<<>>}, idb : {<<>>}]

DeriveIds ==
  /\ idq.phase = "in"
  /\ idq' = [idq EXCEPT !.phase = "out", !.ida = TaskId(idq.a), !.idb = TaskId(idq.b)]
  /\ UNCHANGED <<REPLICATION_NODES, replication_servers, dbs, replicator, clock, call, last>>

NextIds == DeriveIds

SpecIds == InitIds /\ [][NextIds]_vars

\* ------------------------------------------------------------------ claims
SetupDone == call.op = "setup" /\ call.pc = "done" /\ HasManager

ActiveReplicas == Range(replication_servers)

AttemptsFor(node_url) == {k \in 1..Len(call.attempts) : call.attempts[k].node = node_url}

\* The second of two setup_database_replication(db, True) calls in a row has
\* returned, every request of both having succeeded.
SetupTwice ==
  /\ SetupDone /\ call.bidirectional /\ ~call.netfail /\ ~call.interfered
  /\ last.op = "setup" /\ last.db = call.db

\* C1: calling setup_database_replication(db, bidirectional=True) twice in a
\* row, every request succeeding, leaves the control database with the set of
\* task ids it had after the first call, and the second call has updated each
\* task document of db that existed (its revision is the next one).
C1_SetupTwiceUpdates ==
  SetupTwice =>
    /\ DOMAIN replicator = DOMAIN last.rep
    /\ \A n \in ActiveReplicas :
         \A id \in {PrimaryToId(n, call.db), ToPrimaryId(n, call.db)} :
           id \in DOMAIN last.rep => replicator[id].rev = last.rep[id].rev + 1

\* C2: with N active replicas and every request succeeding,
\* setup_database_replication attempts 2N task upserts when bidirectional and
\* N otherwise, and returns N entries, all true.
C2_SetupUpsertCount ==
  (SetupDone /\ ~call.netfail) =>
    /\ Len(call.attempts) =
         (IF call.bidirectional THEN 2 ELSE 1) * Len(replication_servers)
    /\ DOMAIN call.results = ActiveReplicas
    /\ \A n \in ActiveReplicas : call.results[n]

\* C3: a replica whose database-ensure step failed has the result false and
\* no task upsert is made for it in that call.
C3_EnsureFailureSkipsTasks ==
  \A n \in call.ensureFailed :
    /\ n \in DOMAIN call.results /\ ~call.results[n]
    /\ AttemptsFor(n) = {}

\* C4: setup_database_replication returns one boolean per active replica and
\* does not raise; an entry is true only if the replica's ensure step and every
\* task upsert attempted for it succeeded; every replica is processed whatever
\* happened to the ones before it.
C4_SetupPerNodeResults ==
  SetupDone =>
    /\ ~call.raised
    /\ DOMAIN call.results = ActiveReplicas
    /\ call.ensured = ActiveReplicas
    /\ \A n \in ActiveReplicas :
         call.results[n] =>
           /\ n \notin call.ensureFailed
           /\ \A k \in AttemptsFor(n) : ~call.attempts[k].raised

\* A setup over two replicas has returned; the first replica's ensure step
\* failed and the second one's did not.
C4_Witness ==
  /\ SetupDone /\ Len(replication_servers) = 2
  /\ replication_servers[1] \in call.ensureFailed
  /\ replication_servers[2] \notin call.ensureFailed
  /\ DOMAIN call.results = ActiveReplicas

GetOrCreateDone == call.op = "get_or_create_db" /\ call.pc = "done" /\ ~call.raised

\* C5: with a manager, get_or_create_db(name) returns the primary's handle of
\* an existing database, having invoked setup_database_replication once when
\* the database did not exist on the primary before the call and not at all
\* when it did.
C5_NewDatabaseTriggersSetup ==
  (GetOrCreateDone /\ HasManager) =>
    /\ call.handle = COUCHDB_URL \o call.db
    /\ call.db \in dbs[COUCHDB_URL]
    /\ call.setups = (IF call.existed THEN 0 ELSE 1)

\* C6: without replica nodes configured, get_or_create_db(name) leaves the
\* database existing on the primary and returns the primary's handle, invokes
\* no setup_database_replication, makes no task upsert and creates nothing on
\* another node.
C6_SingleNodeNoReplication ==
  ~HasManager =>
    /\ GetOrCreateDone =>
         /\ call.db \in dbs[COUCHDB_URL]
         /\ call.handle = COUCHDB_URL \o call.db
    /\ call.setups = 0
    /\ call.attempts = <<>>
    /\ call.pc \notin {"ensure", "tasks", "sync"}
    /\ \A u \in AllUrls \ {COUCHDB_URL} : dbs[u] = {}

\* In single-node mode get_or_create_db has returned the handle of a database
\* that did not exist before the call.
C6_Witness == ~HasManager /\ GetOrCreateDone /\ ~call.existed

\* C7: a _create_replication call with no concurrent writer is accepted, and
\* the control database holds a document with the call's id afterwards.
C7_UpsertWritesDocument ==
  ~call.interfered =>
    \A k \in 1..Len(call.attempts) :
      /\ ~call.attempts[k].raised
      /\ call.attempts[k].id \in DOMAIN replicator

\* C9: the ids derived for two continuous tasks are equal only if the replica
\* URL, the database name and the direction are all equal.
C9_DerivedIdsUnique ==
  (idq.phase = "out" /\ idq.ida = idq.idb) => idq.a = idq.b

\* C10: the sync tasks one sync_database call upserts have ids distinct from
\* one another, one per replica, and distinct from the ids of the continuous
\* tasks of the configured nodes.
C10_SyncIdsDistinct ==
  (call.op = "sync" /\ call.pc = "done") =>
    /\ \A j, k \in 1..Len(call.attempts) :
         j # k => call.attempts[j].id # call.attempts[k].id
    /\ \A k \in 1..Len(call.attempts) : \A n \in Range(nodes) : \A d \in DbNames :
         call.attempts[k].id \notin {PrimaryToId(n, d), ToPrimaryId(n, d)}

\* ------------------------------------------------- the replication endpoints
\* The replication endpoints of the REST API.
Endpoints == {"status", "health", "sync", "setup", "info"}
PostEndpoints == {"sync", "setup"}

\* What request.get_json() has to work with: no JSON body, the JSON value
\* null, a JSON array, or a JSON object that may hold 'database' ('' or a
\* name) and a flag ('wait' or 'bidirectional').
ObjectBodies ==
  UNION { [D -> {<<>>, <<"x">>}] : D \in SUBSET {"database"} }
RequestBodies ==
  { [kind |-> k, fields |-> EmptyMap, flag |-> FALSE] : k \in {"none", "null", "array"} }
    \cup { [kind |-> "object", fields |-> f, flag |-> b] :
             f \in ObjectBodies, b \in BOOLEAN }

\* str(e) of what the operation behind an endpoint raises, and of what the
\* handler itself raises on a body that is not a JSON object.
OperationError == "Sync failed"
BodyError == "'NoneType' object has no attribute 'get'"

Response(code, success, error, invoked) ==
  [code |-> code, success |-> success, error |-> error, invoked |-> invoked]

\* sync_database_endpoint and setup_database_replication: get_json() raises
\* without a JSON body and data.get raises on null and on an array, all inside
\* the try, so the handler answers 500; a falsy 'database' answers 400 before
\* the operation is called.
PostHandler(body, raises) ==
  IF body.kind # "object" THEN Response(500, FALSE, BodyError, FALSE)
  ELSE IF Get(body.fields, "database", <<>>) = <<>>
       THEN Response(400, FALSE, "Database name is required", FALSE)
       ELSE IF raises THEN Response(500, FALSE, OperationError, TRUE)
            ELSE Response(200, TRUE, "", TRUE)

\* replication_status, cluster_health and replication_info: no body is read.
GetHandler(raises) ==
  IF raises THEN Response(500, FALSE, OperationError, TRUE)
  ELSE Response(200, TRUE, "", TRUE)

InitApi ==
  /\ REPLICATION_NODES = <<>>
  /\ replication_servers = <<>>
  /\ dbs = [u \in AllUrls |-> {}]
  /\ replicator = EmptyMap
  /\ clock = 0
  /\ call = IdleCall
  /\ last = NoCall
  /\ idq \in [phase : {"request"}, endpoint : Endpoints, body : RequestBodies,
              raises : BOOLEAN, response : {Response(0, FALSE, "", FALSE)}]

\* The endpoint answers the request.
HandleRequest ==
  /\ idq.phase = "request"
  /\ idq' = [idq EXCEPT !.phase = "answered",
                        !.response = IF idq.endpoint \in PostEndpoints
                                     THEN PostHandler(idq.body, idq.raises)
                                     ELSE GetHandler(idq.raises)]
  /\ UNCHANGED <<REPLICATION_NODES, replication_servers, dbs, replicator, clock, call, last>>

NextApi == HandleRequest

SpecApi == InitApi /\ [][NextApi]_vars

\* ------------------------------------------------ the cluster monitor client
\* The request methods of CouchDBMonitor.
MonitorMethods ==
  {"get_cluster_health", "get_replication_status", "get_app_health",
   "get_replication_info", "sync_database"}

\* What happens to the request: answered 2xx with a JSON body, no connection,
\* a timeout, an error status, or a 2xx answer whose body is not JSON.
RequestOutcomes == {"ok", "connection", "timeout", "status404", "status500", "bad_json"}

\* The exception response.json() raises on a body that is not JSON: the
\* JSONDecodeError of requests (a RequestException; requests 2.27 and later)
\* or that of the json module (a ValueError; earlier versions, and the one the
\* unit test raises).  No version of requests is pinned in the sources.
JsonErrors == {"requests.exceptions.JSONDecodeError", "json.JSONDecodeError"}

\* The exceptions that are requests.RequestException.
RequestExceptions ==
  {"requests.ConnectionError", "requests.Timeout", "requests.HTTPError",
   "requests.exceptions.JSONDecodeError"}

\* What the body of the try raises ("none": it returns response.json()).
RaisedInTry(outcome, jsonError) ==
  CASE outcome = "ok" -> "none"
    [] outcome = "connection" -> "requests.ConnectionError"
    [] outcome = "timeout" -> "requests.Timeout"
    [] outcome \in {"status404", "status500"} -> "requests.HTTPError"
    [] outcome = "bad_json" -> jsonError

\* One request method of CouchDBMonitor: except requests.RequestException
\* returns the failure record; any other exception leaves the method.
MonitorRequest(outcome, jsonError) ==
  LET e == RaisedInTry(outcome, jsonError)
  IN IF e = "none" THEN [raised |-> "none", success |-> TRUE, error |-> ""]
     ELSE IF e \in RequestExceptions
          THEN [raised |-> "none", success |-> FALSE, error |-> e]
          ELSE [raised |-> e, success |-> FALSE, error |-> ""]

InitMonitor ==
  /\ REPLICATION_NODES = <<>>
  /\ replication_servers = <<>>
  /\ dbs = [u \in AllUrls |-> {}]
  /\ replicator = EmptyMap
  /\ clock = 0
  /\ call = IdleCall
  /\ last = NoCall
  /\ idq \in [phase : {"request"}, method : MonitorMethods, outcome : RequestOutcomes,
              jsonError : JsonErrors,
              result : {[raised |-> "none", success |-> FALSE, error |-> ""]}]

\* The monitor calls one of its request methods.
MonitorCall ==
  /\ idq.phase = "request"
  /\ idq' = [idq EXCEPT !.phase = "returned",
                        !.result = MonitorRequest(idq.outcome, idq.jsonError)]
  /\ UNCHANGED <<REPLICATION_NODES, replication_servers, dbs, replicator, clock, call, last>>

NextMonitor == MonitorCall

SpecMonitor == InitMonitor /\ [][NextMonitor]_vars

\* ------------------------------------------- failover among task documents
\* A replica served under a path of the host of NodeA (a CouchDB behind a
\* reverse proxy), so that its URL begins with the URL of NodeA.
NodeSub == <<"h", ":", "/", "/", "a", "/", "b", "/">>

\* The continuous tasks setup_database_replication names for a replica and a
\* database, as they stand in the control database once written.
TaskOf(node_url, db_name, dir) ==
  [node |-> node_url,
   id |-> IF dir = "primary_to_node" THEN PrimaryToId(node_url, db_name)
          ELSE ToPrimaryId(node_url, db_name),
   doc |-> [rev |-> 1,
            source |-> IF dir = "primary_to_node" THEN COUCHDB_URL \o db_name
                       ELSE node_url \o db_name,
            target |-> IF dir = "primary_to_node" THEN node_url \o db_name
                       ELSE COUCHDB_URL \o db_name,
            continuous |-> CONTINUOUS_REPLICATION]]
FailoverTasks ==
  { TaskOf(n, <<"x">>, d) : n \in {NodeA, NodeSub},
                            d \in {"primary_to_node", "node_to_primary"} }

\* The control databases holding some of these tasks.
FailoverDbs ==
  { [id \in {t.id : t \in T} |-> (CHOOSE t \in T : t.id = id).doc] :
      T \in SUBSET FailoverTasks }

InitFailover ==
  /\ REPLICATION_NODES = <<NodeA, NodeSub>>
  /\ replication_servers \in SubSeqs(nodes)
  /\ dbs = [u \in AllUrls |-> {}]
  /\ replicator \in FailoverDbs
  /\ clock = 0
  /\ call = IdleCall
  /\ last = NoCall
  /\ idq = NoQuery

NextFailover ==
  \E failed_node \in {NodeA, NodeSub}, db_name \in DbNames :
    CallPerformFailover(failed_node, db_name)

SpecFailover == InitFailover /\ [][NextFailover]_vars

\* ------------------------------------- failover concurrent with an operation
\* Two threads run perform_failover(NodeA, "x") while a third runs an
\* operation that iterates replication_servers.  The threads share the dict
\* replication_servers and the control database; nothing in the manager locks.
\* idq holds what is local to the threads:
\*   fpc[t], fret[t]  where failover thread t stands and what it returned;
\*   op, oppc         the operation of the third thread and where it stands;
\*   used, pos        its dict iterator: the size of the dict when the iterator
\*                    was made, and how many entries it has yielded;
\*   out              the replicas its result has an entry for;
\*   stopped          the tasks the failover threads have deleted.
FailoverThreads == {1, 2}
ConcurrentOps == {"check_node_health", "setup_database_replication", "sync_database"}

\* The loops over replication_servers an operation runs one after the other:
\* setup_database_replication has two, the others one.
LoopsOf(op) == IF op = "setup_database_replication" THEN 2 ELSE 1

InitConcurrent ==
  /\ REPLICATION_NODES = <<NodeA, NodeB>>
  /\ replication_servers = <<NodeA, NodeB>>
  /\ dbs = [u \in AllUrls |-> {}]
  /\ replicator \in {EmptyMap} \cup {MapPut(EmptyMap, t.id, t.doc) : t \in FailoverTasks}
  /\ clock = 0
  /\ call = IdleCall
  /\ last = NoCall
  /\ idq \in [phase : {"threads"}, op : ConcurrentOps, oppc : {"start"}, loop : {1},
              used : {0}, pos : {0}, out : {{}}, stopped : {{}},
              fpc : {[t \in FailoverThreads |-> "stops"]},
              fret : {[t \in FailoverThreads |-> "none"]}]

\* perform_failover, lines 260-264: the status is read and the tasks of the
\* node are stopped.
FailoverStops(t) ==
  /\ idq.phase = "threads" /\ idq.fpc[t] = "stops"
  /\ \E statusFailed \in BOOLEAN, stopFailed \in SUBSET DOMAIN replicator :
       replicator' = perform_failover(replicator, replication_servers, NodeA, <<"x">>,
                                      statusFailed, stopFailed).rep
  /\ idq' = [idq EXCEPT !.fpc[t] = "test",
                        !.stopped = idq.stopped \cup (DOMAIN replicator \ DOMAIN replicator')]
  /\ UNCHANGED <<REPLICATION_NODES, replication_servers, dbs, clock, call, last>>

\* Line 267: if failed_node in self.replication_servers.
FailoverTest(t) ==
  /\ idq.phase = "threads" /\ idq.fpc[t] = "test"
  /\ idq' = IF NodeA \in Range(replication_servers)
            THEN [idq EXCEPT !.fpc[t] = "del"]
            ELSE [idq EXCEPT !.fpc[t] = "done", !.fret[t] = "true"]
  /\ UNCHANGED <<REPLICATION_NODES, replication_servers, dbs, replicator, clock, call, last>>

\* Line 268: del self.replication_servers[failed_node].  When the key is gone
\* the del raises KeyError, which the except of line 273 turns into False.
FailoverDel(t) ==
  /\ idq.phase = "threads" /\ idq.fpc[t] = "del"
  /\ IF NodeA \in Range(replication_servers)
     THEN /\ replication_servers' = RemoveServer(replication_servers, NodeA)
          /\ idq' = [idq EXCEPT !.fpc[t] = "done", !.fret[t] = "true"]
     ELSE /\ replication_servers' = replication_servers
          /\ idq' = [idq EXCEPT !.fpc[t] = "done", !.fret[t] = "false"]
  /\ UNCHANGED <<REPLICATION_NODES, dbs, replicator, clock, call, last>>

\* The control database after the body of the operation's loop has run for
\* node_url: the second loop of setup_database_replication('x') upserts the
\* two tasks of the node, the loop of sync_database('x') its sync task; the
\* first loop of the setup and the loop of check_node_health write no task.
LoopBody(op, loop, rep, node_url, now) ==
  LET c == [IdleCall EXCEPT !.db = <<"x">>, !.bidirectional = TRUE] IN
  CASE op = "setup_database_replication" /\ loop = 2 -> TaskIteration(c, rep, node_url).rep
    [] op = "sync_database" -> SyncIteration(c, rep, node_url, now).rep
    [] OTHER -> rep

\* The operation begins its first loop: the for statement makes an iterator
\* over the dict (for check_node_health after the record of the primary).
OperationStart ==
  /\ idq.phase = "threads" /\ idq.oppc = "start"
  /\ idq' = [idq EXCEPT !.oppc = "loop", !.used = Len(replication_servers), !.pos = 0]
  /\ UNCHANGED <<REPLICATION_NODES, replication_servers, dbs, replicator, clock, call, last>>

\* The for statement asks the iterator for its next entry and runs the body.
\* The iterator raises RuntimeError (dictionary changed size during iteration)
\* when the dict no longer has the size it had; the for statements are outside
\* every try, so the operation raises.  In the last loop of the operation the
\* body stores the result of the replica.
OperationNext ==
  /\ idq.phase = "threads" /\ idq.oppc = "loop"
  /\ idq' = IF Len(replication_servers) # idq.used
            THEN [idq EXCEPT !.oppc = "raised"]
            ELSE IF idq.pos = Len(replication_servers)
                 THEN IF idq.loop < LoopsOf(idq.op)
                      THEN [idq EXCEPT !.loop = idq.loop + 1,
                                       !.used = Len(replication_servers), !.pos = 0]
                      ELSE [idq EXCEPT !.oppc = "done"]
                 ELSE [idq EXCEPT !.pos = idq.pos + 1,
                                  !.out = IF idq.loop = LoopsOf(idq.op)
                                          THEN idq.out \cup {replication_servers[idq.pos + 1]}
                                          ELSE idq.out]
  /\ replicator' = IF Len(replication_servers) = idq.used /\ idq.pos < Len(replication_servers)
                    THEN LoopBody(idq.op, idq.loop, replicator,
                                  replication_servers[idq.pos + 1], clock)
                    ELSE replicator
  /\ UNCHANGED <<REPLICATION_NODES, replication_servers, dbs, clock, call, last>>

NextConcurrent ==
  \/ \E t \in FailoverThreads : FailoverStops(t)
  \/ \E t \in FailoverThreads : FailoverTest(t)
  \/ \E t \in FailoverThreads : FailoverDel(t)
  \/ OperationStart
  \/ OperationNext

SpecConcurrent == InitConcurrent /\ [][NextConcurrent]_vars

\* ------------------------------------------------ the continuous flag of tasks
\* str.lower(), on the letters the settings below are written with.
LowerChar(c) ==
  CASE c = "T" -> "t" [] c = "R" -> "r" [] c = "U" -> "u" [] c = "E" -> "e"
    [] c = "F" -> "f" [] c = "A" -> "a" [] c = "L" -> "l" [] c = "S" -> "s"
    [] c = "Y" -> "y" [] OTHER -> c
Lower(s) == [i \in 1..Len(s) |-> LowerChar(s[i])]

\* The values the environment gives CONTINUOUS_REPLICATION, and the variable
\* not being set, for which os.environ.get answers 'true'.
ContinuousValues ==
  { <<"t", "r", "u", "e">>, <<"T", "r", "u", "e">>, <<"T", "R", "U", "E">>,
    <<"f", "a", "l", "s", "e">>, <<"F", "a", "l", "s", "e">>, <<"y", "e", "s">>,
    <<"1">>, <<>> }
ContinuousEnv ==
  { [set |-> FALSE, value |-> <<>>] } \cup { [set |-> TRUE, value |-> v] : v \in ContinuousValues }

\* CONTINUOUS_REPLICATION = os.environ.get('CONTINUOUS_REPLICATION', 'true').lower() == 'true'
ContinuousSetting(env) ==
  Lower(IF env.set THEN env.value ELSE <<"t", "r", "u", "e">>) = <<"t", "r", "u", "e">>

\* The _create_replication calls of the manager: the two of
\* setup_database_replication and the one of sync_database.
TaskCalls == {"setup_primary_to_node", "setup_node_to_primary", "sync"}

\* The document the call hands to the control database.
TaskDocument(task, node_url, db_name, setting) ==
  CASE task = "setup_primary_to_node" ->
         ReplicationDoc(COUCHDB_URL \o db_name, node_url \o db_name, setting)
    [] task = "setup_node_to_primary" ->
         ReplicationDoc(node_url \o db_name, COUCHDB_URL \o db_name, setting)
    [] task = "sync" ->
         ReplicationDoc(COUCHDB_URL \o db_name, node_url \o db_name, FALSE)

InitContinuous ==
  /\ REPLICATION_NODES = <<NodeA, NodeB>>
  /\ replication_servers = <<NodeA, NodeB>>
  /\ dbs = [u \in AllUrls |-> {}]
  /\ replicator = EmptyMap
  /\ clock = 0
  /\ call = IdleCall
  /\ last = NoCall
  /\ idq \in [phase : {"configured"}, env : ContinuousEnv, task : TaskCalls,
              node : {NodeA, NodeB}, db : DbNames, doc : {EmptyMap}]

\* setup_database_replication or sync_database builds the document of a task.
BuildTask ==
  /\ idq.phase = "configured"
  /\ idq' = [idq EXCEPT !.phase = "built",
                        !.doc = TaskDocument(idq.task, idq.node, idq.db,
                                             ContinuousSetting(idq.env))]
  /\ UNCHANGED <<REPLICATION_NODES, replication_servers, dbs, replicator, clock, call, last>>

NextContinuous == BuildTask

SpecContinuous == InitContinuous /\ [][NextContinuous]_vars

\* ------------------------------------------------- the normalized node list
\* Entries of a configured node list: nothing, or a text with a blank inside,
\* with whitespace before and after it; and the lists of the configurations.
Pads == {<<>>} \cup SeqsUpTo(Whitespace, MaxPad)
EntryBodies == {<<>>, <<"b", " ", "b">>}
NodeEntries == { l \o b \o r : l \in Pads, b \in EntryBodies, r \in Pads }
NodeLists == {<<>>} \cup SeqsUpTo(NodeEntries, MaxListLen) \cup NodeConfigs

InitNorm ==
  /\ REPLICATION_NODES = <<>>
  /\ replication_servers = <<>>
  /\ dbs = [u \in AllUrls |-> {}]
  /\ replicator = EmptyMap
  /\ clock = 0
  /\ call = IdleCall
  /\ last = NoCall
  /\ idq \in [phase : {"configured"}, raw : NodeLists, nodes : {<<>>}]

\* CouchDBReplicationManager.__init__ computes self.nodes.
Construct ==
  /\ idq.phase = "configured"
  /\ idq' = [idq EXCEPT !.phase = "constructed", !.nodes = Normalize(idq.raw)]
  /\ UNCHANGED <<REPLICATION_NODES, replication_servers, dbs, replicator, clock, call, last>>

NextNorm == Construct

SpecNorm == InitNorm /\ [][NextNorm]_vars

\* ------------------------------------ get_replication_status over documents
\* Task ids and a system document of a control database, and the names asked for.
Id_pdfs_to_X == <<"p", "d", "f", "s", "_", "t", "o", "_", "X">>
Id_categories_to_X ==
  <<"c", "a", "t", "e", "g", "o", "r", "i", "e", "s", "_", "t", "o", "_", "X">>
Id_X_to_pdfs == <<"X", "_", "t", "o", "_", "p", "d", "f", "s">>
Id_design == <<"_", "d", "e", "s", "i", "g", "n", "/", "f">>
Name_pdfs == <<"p", "d", "f", "s">>
Name_categories == <<"c", "a", "t", "e", "g", "o", "r", "i", "e", "s">>
StatusIds == {Id_pdfs_to_X, Id_categories_to_X, Id_X_to_pdfs}
StatusNames == {<<>>, Name_pdfs, Name_categories, <<"X">>, <<"t", "o", "_", "p">>}

\* What the replicator of CouchDB adds to a task document once it has picked
\* it up: nothing yet, the state and its time, and statistics that report all,
\* some or none of the counters.
StatsReported ==
  { [c \in Counters |-> 2],
    [c \in Counters \ {"revisions_checked"} |-> 0],
    EmptyMap }
DocProgress ==
  {EmptyMap}
    \cup { ("_replication_state" :> st) @@ ("_replication_state_time" :> "t1") :
             st \in {"running", "completed"} }
    \cup { ("_replication_state" :> "running") @@ ("_replication_state_time" :> "t1")
             @@ ("_replication_stats" :> stats) : stats \in StatsReported }
StatusDocs ==
  { p @@ [rev |-> 1, source |-> COUCHDB_URL \o Name_pdfs, target |-> NodeA \o Name_pdfs,
          continuous |-> TRUE] : p \in DocProgress }

\* The control databases: any of the task documents, in any progress, with or
\* without the system document.
StatusDbs ==
  UNION { [ids \cup sys -> StatusDocs] :
            ids \in SUBSET StatusIds, sys \in {{}, {Id_design}} }

InitStatus ==
  /\ REPLICATION_NODES = <<NodeA>>
  /\ replication_servers = <<NodeA>>
  /\ dbs = [u \in AllUrls |-> {}]
  /\ replicator \in StatusDbs
  /\ clock = 0
  /\ call = IdleCall
  /\ last = NoCall
  /\ idq = NoQuery

NextStatus == \E db_name \in StatusNames : CallGetReplicationStatus(db_name)

SpecStatus == InitStatus /\ [][NextStatus]_vars

\* A get_replication_status call of the manager has returned and the control
\* database is as the call read it.
StatusDone ==
  HasManager /\ call.op = "status" /\ call.pc = "done" /\ ~call.interfered

\* The documents get_replication_status(name) is to report.
Reported(rep, name) ==
  { id \in DOMAIN rep :
      /\ id[1] # "_"
      /\ \E pre, post \in 0..Len(id) :
           /\ pre + Len(name) + post = Len(id)
           /\ \A k \in 1..Len(name) : id[pre + k] = name[k] }

\* C12 as stated: get_replication_status(name) returns exactly the documents
\* whose id does not start with '_' and contains name as a substring (all
\* non-system documents when no name is given).
C12_StatusAsStated ==
  StatusDone => DOMAIN call.status = Reported(replicator, call.db)

\* C12, amended: when the requests to the primary succeed,
\* get_replication_status(name) returns exactly the documents whose id does not
\* start with '_' and contains name as a substring (all non-system documents
\* when no name is given); when a request fails it returns the empty map.
C12_StatusFilter ==
  StatusDone =>
    /\ ~call.netfail => DOMAIN call.status = Reported(replicator, call.db)
    /\ call.netfail => call.status = EmptyMap

\* Over pdfs_to_X, categories_to_X, X_to_pdfs and a system document, the name
\* 'pdfs' has yielded exactly the two ids containing 'pdfs'.
C12_Witness ==
  /\ StatusDone /\ ~call.netfail /\ call.db = Name_pdfs
  /\ DOMAIN replicator = StatusIds \cup {Id_design}
  /\ DOMAIN call.status = {Id_pdfs_to_X, Id_X_to_pdfs}

\* C13: in every record of get_replication_status a counter appears only if the
\* task document reports that counter.
C13_CountersOnlyIfReported ==
  StatusDone =>
    \A id \in DOMAIN call.status : \A c \in Counters :
      c \in DOMAIN call.status[id] =>
        /\ id \in DOMAIN replicator
        /\ "_replication_stats" \in DOMAIN replicator[id]
        /\ c \in DOMAIN replicator[id]["_replication_stats"]

\* A stop_replication call of the manager: the step from its call to its return.
StopStep ==
  /\ HasManager /\ CanCall
  /\ call'.op = "stop" /\ call'.pc = "done" /\ ~call'.interfered

\* C11 as stated: stop_replication(id) does not raise; when a document with
\* that id exists it deletes it and returns true; when none exists it returns
\* false and leaves the control database unchanged.
C11_StopAsStated ==
  [][StopStep =>
       /\ ~call'.raised
       /\ call'.existed => (call'.ret /\ call'.arg \notin DOMAIN replicator')
       /\ ~call'.existed => (~call'.ret /\ replicator' = replicator)]_vars

\* C11, amended: stop_replication(id) does not raise; when a document with that
\* id exists and the requests to the primary succeed it deletes exactly that
\* document and returns true; otherwise (no such document, or a request
\* failed) it returns false and leaves the control database unchanged.
C11_StopReplication ==
  [][StopStep =>
       /\ ~call'.raised
       /\ (call'.existed /\ ~call'.netfail) =>
            (call'.ret /\ replicator' = MapDel(replicator, call'.arg))
       /\ (~call'.existed \/ call'.netfail) =>
            (~call'.ret /\ replicator' = replicator)]_vars

\* A stop_replication of an existing task document has returned true.
C11_Witness ==
  /\ HasManager /\ call.op = "stop" /\ call.pc = "done" /\ ~call.interfered
  /\ call.existed /\ call.ret /\ call.arg \notin DOMAIN replicator

\* A check_cluster_health call has returned.
HealthDone == call.op = "health" /\ call.pc = "done"

C15_HealthCoversConfigured ==
  (HealthDone /\ HasManager) =>
    ({COUCHDB_URL} \cup Range(nodes)) \subseteq DOMAIN call.health

\* C16: every health record check_cluster_health returns, with or without a
\* manager, has a timestamp.
C16_HealthTimestamp ==
  HealthDone => \A n \in DOMAIN call.health : "timestamp" \in DOMAIN call.health[n]

\* A perform_failover call has returned and the control database is as the
\* call left it.
FailoverDone == call.op = "failover" /\ call.pc = "done" /\ ~call.interfered

\* The replicas a call has contacted or reports on.
NodesOf(c) ==
  {c.attempts[k].node : k \in DOMAIN c.attempts}
    \cup c.ensured \cup c.ensureFailed \cup DOMAIN c.results
    \cup (DOMAIN c.health \ {COUCHDB_URL})

\* C17: perform_failover(node, db) returns true with node out of the active
\* replica set, whatever its stop_replication calls returned; the active set
\* never takes a node back, and every setup_database_replication,
\* sync_database and check_node_health contacts and reports only replicas of
\* the active set, so none started afterwards has to do with node.
C17_FailoverRemovesNode ==
  /\ [](FailoverDone => (call.ret /\ call.arg \notin Range(replication_servers)))
  /\ [][Range(replication_servers') \subseteq Range(replication_servers)]_vars
  /\ [](call.op \in {"setup", "sync", "health"} =>
          NodesOf(call) \subseteq Range(replication_servers))

\* A failover of an active node has returned true although its stop of the
\* node's task failed and the task document is still there.
C17_Witness ==
  /\ FailoverDone /\ call.ret /\ call.existed
  /\ \E repl_id \in DOMAIN call.stops :
       ~call.stops[repl_id] /\ repl_id \in DOMAIN replicator

\* C18: after perform_failover(node, db) has returned true with every
\* stop_replication call succeeding, no task document of the control database
\* has node as its source or as its target.
C18_NoTaskReferencesNode ==
  (FailoverDone /\ call.ret /\ \A repl_id \in DOMAIN call.stops : call.stops[repl_id]) =>
    \A id \in DOMAIN replicator :
      /\ ~StartsWith(replicator[id].source, call.arg)
      /\ ~StartsWith(replicator[id].target, call.arg)

\* A sync_database call of the manager that waits for completion has returned.
SyncWaitDone ==
  /\ HasManager /\ call.op = "sync" /\ call.pc = "done" /\ call.wait
  /\ ~call.nested

\* C19: sync_database(db, wait_for_completion=True) creates its sync task for
\* each replica, polls it until a poll shows it in a terminal state, and only
\* then goes on, so when it has returned every task was written and every
\* replica's result is true.
C19_SyncWaitsForTerminal ==
  SyncWaitDone =>
    /\ \A k \in DOMAIN call.attempts : ~call.attempts[k].raised
    /\ \A n \in Range(replication_servers) :
         n \in DOMAIN call.results /\ call.results[n]

\* The entry without the whitespace at its ends.
Trim(e) ==
  LET inked == {i \in 1..Len(e) : e[i] \notin Whitespace}
  IN IF inked = {} THEN <<>>
     ELSE SubSeq(e, CHOOSE i \in inked : \A j \in inked : i <= j,
                    CHOOSE i \in inked : \A j \in inked : i >= j)

\* C20: the manager's node list is exactly the whitespace-trimmed, non-empty
\* entries of the configured list, in configuration order.
C20_NodesNormalized ==
  idq.phase = "constructed" =>
    idq.nodes = SelectSeq([k \in 1..Len(idq.raw) |-> Trim(idq.raw[k])],
                          LAMBDA e : e # <<>>)

\* ['  http://a/  ', '', 'http://b/'] in the model's URLs has been normalized
\* to exactly the two URLs.
C20_Witness ==
  /\ idq.phase = "constructed"
  /\ idq.raw = << <<" ">> \o NodeA \o <<" ">>, <<>>, NodeB >>
  /\ idq.nodes = <<NodeA, NodeB>>

\* C21: in every state the primary URL is neither in the configured node list
\* nor among the active replication servers, and no task is asked for whose
\* source and target are the same node.
C21_PrimaryNotReplica ==
  /\ COUCHDB_URL \notin Range(nodes)
  /\ COUCHDB_URL \notin Range(replication_servers)
  /\ \A k \in DOMAIN call.attempts : call.attempts[k].node # COUCHDB_URL

\* The request names no database: there is no JSON object, or the object has
\* no 'database', or an empty one.
NameMissing(body) ==
  body.kind # "object" \/ "database" \notin DOMAIN body.fields
    \/ body.fields["database"] = <<>>

\* C22: a POST to sync or setup without a database name is answered 400 with
\* success false and 'Database name is required', the operation not invoked;
\* a request whose operation raises is answered 500 with success false and the
\* message; every other request is answered 200 with success true.
C22_EndpointEnvelope ==
  idq.phase = "answered" =>
    IF idq.endpoint \in PostEndpoints /\ NameMissing(idq.body)
    THEN /\ idq.response.code = 400 /\ ~idq.response.success
         /\ idq.response.error = "Database name is required"
         /\ ~idq.response.invoked
    ELSE IF idq.raises
         THEN /\ idq.response.code = 500 /\ ~idq.response.success
              /\ idq.response.error = OperationError
         ELSE idq.response.code = 200 /\ idq.response.success

\* C23: no request method of the monitor raises to its caller; on a connection
\* failure, a timeout, an error status or a body that is not JSON it returns a
\* record with success false and the error message.
C23_MonitorNeverRaises ==
  idq.phase = "returned" =>
    /\ idq.result.raised = "none"
    /\ idq.outcome # "ok" => (~idq.result.success /\ idq.result.error # "")

\* The step from the call of perform_failover to its return.
FailoverStep ==
  CanCall /\ call'.op = "failover" /\ call'.pc = "done" /\ ~call'.interfered

\* The task document with this id is one between the primary and node.
TaskOfNode(id, node) == \E t \in FailoverTasks : t.id = id /\ t.node = node

\* C24: perform_failover(node, db) calls stop_replication only for task
\* documents of the failed node; every task document between the primary and
\* another replica stays in the control database as it was.
C24_FailoverStopsOnlyNodeTasks ==
  [][FailoverStep =>
       \A id \in DOMAIN replicator :
         ~TaskOfNode(id, call'.arg) =>
           /\ id \notin DOMAIN call'.stops
           /\ id \in DOMAIN replicator' /\ replicator'[id] = replicator[id]]_vars

\* The failover threads and the operation beside them have all ended.
ThreadsEnded ==
  /\ idq.phase = "threads"
  /\ \A t \in FailoverThreads : idq.fpc[t] = "done"
  /\ idq.oppc \in {"done", "raised"}

\* C25: when perform_failover runs beside check_node_health,
\* setup_database_replication, sync_database or another perform_failover for
\* the same node, nothing raises, each perform_failover returns true, and the
\* operation returns a result with an entry for every replica still active.
C25_FailoverRemovalAtomic ==
  ThreadsEnded =>
    /\ idq.oppc = "done"
    /\ \A t \in FailoverThreads : idq.fret[t] = "true"
    /\ Range(replication_servers) \subseteq idq.out

\* C26: in every configuration the task documents setup_database_replication
\* upserts are continuous and those sync_database upserts are not.
C26_ContinuousByOperation ==
  idq.phase = "built" => (idq.doc.continuous <=> idq.task # "sync")

\* A get_or_create_db call of a process with a manager has ended.
GetOrCreateEnded == HasManager /\ call.op = "get_or_create_db" /\ call.pc = "done"

\* C27: get_or_create_db(name) raises only when one of its own requests to the
\* primary failed, which is before any replication setup; once it has started
\* the setup it returns the primary's handle, whatever failed on the replicas.
C27_ReplicaFailureContained ==
  GetOrCreateEnded =>
    IF call.raised
    THEN call.setups = 0 /\ call.ensured = {} /\ call.attempts = <<>>
    ELSE call.handle = COUCHDB_URL \o call.db

\* get_or_create_db has returned the handle after a setup in which the
\* database could not be created on a replica and every replica's result is
\* false.
C27_Witness ==
  /\ GetOrCreateEnded /\ ~call.raised /\ call.setups = 1
  /\ call.ensureFailed # {}
  /\ DOMAIN call.results = Range(replication_servers)
  /\ \A n \in DOMAIN call.results : ~call.results[n]
  /\ call.handle = COUCHDB_URL \o call.db

\* C28: the active replicas are always among the configured nodes; no step
\* adds one; only perform_failover removes one, and then at most the node it
\* was called for; and every call contacts and reports only active replicas,
\* so a node dropped at construction or by a failover is never contacted again.
C28_ActiveSetOnlyShrinks ==
  /\ [](Range(replication_servers) \subseteq Range(nodes))
  /\ [][/\ Range(replication_servers') \subseteq Range(replication_servers)
        /\ replication_servers' # replication_servers =>
             /\ call'.op = "failover"
             /\ Range(replication_servers) \ Range(replication_servers')
                  \subseteq {call'.arg}]_vars
  /\ [](NodesOf(call) \subseteq Range(replication_servers))

\* A health check has reported an active replica unhealthy and the replica is
\* still active, while another configured node is out of the active set.
C28_Witness ==
  /\ HealthDone /\ HasManager
  /\ \E n \in Range(replication_servers) :
       n # COUCHDB_URL /\ call.health[n].status = "unhealthy"
  /\ \E n \in Range(nodes) : n \notin Range(replication_servers)

\* A task document of the control database whose source or target is the
\* database db_name on the node.
References(doc, node, db_name) ==
  doc.source = node \o db_name \/ doc.target = node \o db_name

====
